---- MODULE Spec2Model ----
(***************************************************************************)
(* Model of audio_video_features.py: the label rasterizer                  *)
(* (labels_to_target, events_to_target), the video feature transform       *)
(* (VideoFeatureExtractor.video3d_frames) and the archive builder          *)
(* (calculate_feature_for_all_audio_files).                                *)
(*                                                                         *)
(* Python sequences are 0-indexed; vectors and matrices are modelled as    *)
(* functions on 0..len-1, growable datasets as TLA+ sequences whose        *)
(* element i+1 is Python row i.                                            *)
(***************************************************************************)
EXTENDS Integers, Sequences, FiniteSets, TLC

(***************************************************************************)
(* Bounds of the model.  The configuration values (config.classes_num,     *)
(* config.frames_num, ...) are scaled down.                                *)
(***************************************************************************)
classes_num == 2

frames_num == 3

frames_per_second == 3

TimeDen == 2

MaxTick == 2

MaxLabels == 2

MaxEvents == 2

(***************************************************************************)
(* Labels.  A label of the vocabulary is <<"lb", i>> with i its index; NaN *)
(* is the sentinel pandas leaves in an empty metadata cell; Unknown is a   *)
(* label that is present but is no key of lb_to_idx.                       *)
(***************************************************************************)
NaN == <<"nan", 0>>

Unknown == <<"lb", classes_num>>

Vocabulary == {<<"lb", i>> : i \in 0..(classes_num - 1)}

lb_to_idx == [l \in Vocabulary |-> l[2]]

LabelUniverse == Vocabulary \cup {NaN, Unknown}

\* utilities.isnan: true of the missing-label sentinel only.
isnan(x) == x = NaN

\* Python's lb_to_idx[label] raises KeyError when label is no key.
HasKey(label) == label \in DOMAIN lb_to_idx

(***************************************************************************)
(* A call's outcome: raised = TRUE is an exception leaving the function    *)
(* (nothing is returned; target then holds the local as it stood).         *)
(***************************************************************************)
Returned(t) == [raised |-> FALSE, target |-> t]

Raised(t) == [raised |-> TRUE, target |-> t]

\* np.zeros(classes_num, dtype=bool)
ZeroVector == [c \in 0..(classes_num - 1) |-> FALSE]

\* np.zeros((frames_num, classes_num), dtype=bool)
ZeroMatrix == [f \in 0..(frames_num - 1) |-> ZeroVector]

(***************************************************************************)
(* labels_to_target: the loop over labels, from position i on, with the    *)
(* target built so far.                                                    *)
(***************************************************************************)
RECURSIVE LabelsLoop(_, _, _)
LabelsLoop(labels, i, target) ==
    IF i > Len(labels) THEN Returned(target)
    ELSE IF isnan(labels[i]) THEN LabelsLoop(labels, i + 1, target)
    ELSE IF ~HasKey(labels[i]) THEN Raised(target)
    ELSE LabelsLoop(labels, i + 1,
                    [target EXCEPT ![lb_to_idx[labels[i]]] = TRUE])

\* Mutant: a label that is no key of lb_to_idx is skipped like a missing one.
labels_to_target_lenient(labels) ==
    LabelsLoop(SelectSeq(labels, LAMBDA l : isnan(l) \/ HasKey(l)), 1, ZeroVector)

\* Mutant: the loop stops before the last label.
labels_to_target_short(labels) ==
    LabelsLoop(SubSeq(labels, 1, Len(labels) - 1), 1, ZeroVector)

labels_to_target(labels) == LabelsLoop(labels, 1, ZeroVector)

(***************************************************************************)
(* Python's round() on a float: round half to even.  The value is p/q.     *)
(***************************************************************************)
PyRound(p, q) ==
    LET fl == p \div q
        r  == p % q
    IN IF 2 * r < q THEN fl
       ELSE IF 2 * r > q THEN fl + 1
       ELSE IF fl % 2 = 0 THEN fl ELSE fl + 1

\* Times are multiples of 1/TimeDen seconds: t ticks = t/TimeDen s.
onset_frame(ev) == PyRound(ev.onset * frames_per_second, TimeDen)

offset_frame(ev) == PyRound(ev.offset * frames_per_second, TimeDen) + 1

\* Mutant: the slice stops one row early (offset_frame without the + 1).
SliceRowsShort(a, b, len) ==
    {f \in 0..(len - 1) : a <= f /\ f < b - 1}

\* Python slice bounds a:b on an axis of length len (a, b >= 0 here, and
\* negative bounds counted from the end): the rows actually addressed.
SliceRows(a, b, len) ==
    LET norm(x) == IF x < 0 THEN (IF x + len < 0 THEN 0 ELSE x + len)
                   ELSE IF x > len THEN len ELSE x
    IN {f \in 0..(len - 1) : norm(a) <= f /\ f < norm(b)}

\* target[a : b, class_id] = 1
SliceAssign(target, a, b, class_id) ==
    [f \in DOMAIN target |->
        IF f \in SliceRows(a, b, frames_num)
        THEN [target[f] EXCEPT ![class_id] = TRUE]
        ELSE target[f]]

RECURSIVE EventsLoop(_, _, _)
EventsLoop(events, i, target) ==
    IF i > Len(events) THEN Returned(target)
    ELSE IF isnan(events[i].event) THEN EventsLoop(events, i + 1, target)
    ELSE IF ~HasKey(events[i].event) THEN Raised(target)
    ELSE EventsLoop(events, i + 1,
                    SliceAssign(target, onset_frame(events[i]),
                                offset_frame(events[i]),
                                lb_to_idx[events[i].event]))

\* Mutant: an event whose name is no key of lb_to_idx is skipped.
events_to_target_lenient(events) ==
    EventsLoop(SelectSeq(events, LAMBDA e : isnan(e.event) \/ HasKey(e.event)),
               1, ZeroMatrix)

events_to_target(events) == EventsLoop(events, 1, ZeroMatrix)

(***************************************************************************)
(* File names are sequences of character codes (ASCII), so that sorted()   *)
(* and str.replace act on them as Python's do on str.                      *)
(***************************************************************************)
MiniDataNum == 10

MaxSmallCorpus == 2

MaxExtra == 1

\* ".wav" and ".avi"
WAV == <<46, 119, 97, 118>>

AVI == <<46, 97, 118, 105>>

\* "a.wav", "b.wav", ... and "a.b.wav"
PlainName(i) == <<96 + i>> \o WAV

DottedName(i) == <<96 + i, 46, 98>> \o WAV

\* Python's str < str: lexicographic on code points, a proper prefix first.
RECURSIVE StrLess(_, _)
StrLess(a, b) ==
    IF b = <<>> THEN FALSE
    ELSE IF a = <<>> THEN TRUE
    ELSE IF Head(a) # Head(b) THEN Head(a) < Head(b)
    ELSE StrLess(Tail(a), Tail(b))

\* sorted(...) of a collection of distinct strings
RECURSIVE sorted(_)
sorted(S) ==
    IF S = {} THEN <<>>
    ELSE LET m == CHOOSE x \in S : \A y \in S \ {x} : StrLess(x, y)
         IN <<m>> \o sorted(S \ {m})

\* s.startswith(old)
StartsWith(s, old) ==
    Len(s) >= Len(old) /\ SubSeq(s, 1, Len(old)) = old

\* str.replace(old, new): every non-overlapping occurrence, left to right.
RECURSIVE StrReplace(_, _, _)
StrReplace(s, old, new) ==
    IF s = <<>> THEN <<>>
    ELSE IF StartsWith(s, old)
         THEN new \o StrReplace(SubSeq(s, Len(old) + 1, Len(s)), old, new)
         ELSE <<Head(s)>> \o StrReplace(Tail(s), old, new)

\* audio_name.replace('.wav', '.avi')
VideoNameOf(audio_name) == StrReplace(audio_name, WAV, AVI)

\* sorted([*audio_dict.keys()])
SortedAudioNames(dict) == sorted(DOMAIN dict)

\* sorted([key.replace('.wav', '.avi') for key in audio_dict.keys()])
SortedVideoNames(dict) == sorted({VideoNameOf(k) : k \in DOMAIN dict})

\* np.random.RandomState(1234).shuffle on a list of length len: the seed
\* fixes the permutation.  Entry len + 1 lists, for each position of the
\* shuffled list, the 0-based position the element had before (MT19937
\* seeded with 1234, swaps x[i], x[j] for i = len-1 .. 1 with j drawn in 0..i).
ShuffleOrder ==
    << <<>>,
       <<0>>,
       <<0, 1>>,
       <<0, 1, 2>>,
       <<0, 1, 2, 3>>,
       <<4, 0, 1, 2, 3>>,
       <<2, 1, 5, 0, 4, 3>>,
       <<2, 1, 6, 0, 4, 5, 3>>,
       <<2, 1, 6, 0, 4, 5, 3, 7>>,
       <<8, 2, 1, 0, 7, 4, 5, 6, 3>>,
       <<7, 2, 9, 1, 0, 8, 4, 5, 6, 3>>,
       <<8, 2, 9, 10, 1, 0, 7, 4, 5, 6, 3>>,
       <<7, 8, 11, 2, 9, 10, 1, 0, 4, 5, 6, 3>>,
       <<10, 0, 12, 9, 2, 11, 7, 1, 8, 4, 5, 6, 3>>,
       <<12, 10, 0, 11, 13, 2, 9, 7, 1, 8, 4, 5, 6, 3>> >>

\* random_state = np.random.RandomState(1234); random_state.shuffle(audio_names)
Shuffle(s) == [j \in 1..Len(s) |-> s[ShuffleOrder[Len(s) + 1][j] + 1]]

\* audio_names[0 : 10]
MiniSlice(s) == SubSeq(s, 1, IF Len(s) < MiniDataNum THEN Len(s) ELSE MiniDataNum)

(***************************************************************************)
(* The metadata read_metadata returns: every item carries a weak label set *)
(* and an event list; at most one item (bad) names a class that is no key  *)
(* of lb_to_idx.                                                           *)
(***************************************************************************)
ClassOf(name) == <<"lb", name[1] % classes_num>>

WeakLabelsOf(name, bad) ==
    IF name = bad THEN <<ClassOf(name), Unknown>> ELSE <<ClassOf(name), NaN>>

StrongLabelsOf(name, bad) ==
    IF name = bad
    THEN <<[event |-> Unknown, onset |-> 0, offset |-> 1]>>
    ELSE <<[event |-> ClassOf(name), onset |-> 0, offset |-> name[1] % (MaxTick + 1)]>>

AudioDict(keys, bad) ==
    [name \in keys |-> [weak_labels |-> WeakLabelsOf(name, bad),
                        strong_labels |-> StrongLabelsOf(name, bad)]]

CorpusSizes == (0..MaxSmallCorpus) \cup {MiniDataNum + MaxExtra}

Corpus(k, dotted) ==
    {PlainName(i) : i \in 1..k} \cup (IF dotted /\ k >= 1 THEN {DottedName(1)} ELSE {})

(***************************************************************************)
(* State.                                                                  *)
(*   pc .. video_feature : calculate_feature_for_all_audio_files           *)
(*   video               : one call of video3d_frames                      *)
(*   rasterizer          : one call of labels_to_target / events_to_target *)
(***************************************************************************)
VARIABLES pc, audio_dict, mini_data, has_weak_labels, has_strong_labels,
          audio_names, video_names, n, hf, feature, video_feature,
          video, rasterizer

vars == <<pc, audio_dict, mini_data, has_weak_labels, has_strong_labels,
          audio_names, video_names, n, hf, feature, video_feature,
          video, rasterizer>>

inputs == <<audio_dict, mini_data, has_weak_labels, has_strong_labels>>

builder == <<pc, audio_dict, mini_data, has_weak_labels, has_strong_labels,
             audio_names, video_names, n, hf, feature, video_feature>>

(***************************************************************************)
(* VideoFeatureExtractor.video3d_frames                                    *)
(***************************************************************************)
video_fps == 2

video_feature_dim == 2

MaxDim == 2

MaxDepth == 3

MaxFrames == 3

VideoIdle ==
    [pc |-> "idle", filename |-> <<>>, nframe |-> 0, width |-> 0, height |-> 0,
     depth |-> 0, color |-> TRUE, skip |-> TRUE, frames |-> <<>>, i |-> 0,
     framearray |-> <<>>, cap |-> "none",
     result |-> [raised |-> FALSE, shape |-> <<>>, frames |-> <<>>]]

\* The call video3d_frames(filename, width, height, depth, color, skip) on a
\* file that holds nframe frames.
VideoCall(filename, nframe, width, height, depth, color, skip) ==
    [VideoIdle EXCEPT !.pc = "called", !.filename = filename, !.nframe = nframe,
                      !.width = width, !.height = height, !.depth = depth,
                      !.color = color, !.skip = skip]

\* frames = [x * nframe / depth for x in range(depth)] or [x for x in range(depth)];
\* cap.set(CAP_PROP_POS_FRAMES, v) seeks to the frame int(v).
FramePositions(nframe, depth, skip) ==
    [x1 \in 1..depth |-> IF skip THEN ((x1 - 1) * nframe) \div depth ELSE x1 - 1]

\* cv2.resize(frame, (height, width)): dsize is (columns, rows), so the array
\* has width rows and height columns; cvtColor(..., COLOR_BGR2GRAY) drops the
\* channel axis.
FrameShape(width, height, color) ==
    IF color THEN <<width, height, 3>> ELSE <<width, height>>

\* np.array(framearray).shape
StackShape(framearray) ==
    IF framearray = <<>> THEN <<0>>
    ELSE <<Len(framearray)>> \o framearray[1].shape

\* ndarray.transpose(axes) on an array of this shape: ValueError unless axes
\* is a permutation of the array's axes.
TransposeOk(shape, axes) ==
    /\ Len(axes) = Len(shape)
    /\ \A a \in 0..(Len(shape) - 1) : \E j \in 1..Len(axes) : axes[j] = a

Transpose(shape, axes) == [j \in 1..Len(axes) |-> shape[axes[j] + 1]]

\* (1, 2, 0, 3) for colour, (1, 2, 0, 0) for grayscale
TransposeAxes(color) == IF color THEN <<1, 2, 0, 3>> ELSE <<1, 2, 0, 0>>

\* line 90-98: open the decoder, read the frame count, choose the positions.
\* A file VideoCapture cannot open reports 0 frames and holds no decoder.
VideoOpen ==
    /\ video.pc = "called"
    /\ video' = [video EXCEPT !.pc = "loop",
                     !.cap = IF video.nframe > 0 THEN "open" ELSE "unopened",
                     !.frames = FramePositions(video.nframe, video.depth, video.skip)]
    /\ UNCHANGED builder
    /\ UNCHANGED rasterizer

\* line 101-109: one iteration.  cap.read() yields no frame at a position
\* outside the file or on data it cannot decode, and cv2.resize of no frame
\* raises; nothing releases cap on that path.
VideoFrame ==
    /\ video.pc = "loop"
    /\ video.i < video.depth
    /\ \E decoded \in BOOLEAN :
          LET pos == video.frames[video.i + 1]
          IN IF decoded /\ pos >= 0 /\ pos < video.nframe
             THEN video' = [video EXCEPT
                      !.i = video.i + 1,
                      !.framearray = Append(video.framearray,
                          [pos |-> pos,
                           shape |-> FrameShape(video.width, video.height,
                                                video.color)])]
             ELSE video' = [video EXCEPT !.pc = "raised", !.result.raised = TRUE]
    /\ UNCHANGED builder
    /\ UNCHANGED rasterizer

\* line 111: cap.release()
VideoRelease ==
    /\ video.pc = "loop"
    /\ video.i = video.depth
    /\ video' = [video EXCEPT !.pc = "stack", !.cap = "released"]
    /\ UNCHANGED builder
    /\ UNCHANGED rasterizer

\* line 113-119: stack the frames and transpose.
VideoReturn ==
    /\ video.pc = "stack"
    /\ LET shape == StackShape(video.framearray)
           axes  == TransposeAxes(video.color)
       IN IF TransposeOk(shape, axes)
          THEN video' = [video EXCEPT !.pc = "returned",
                   !.result = [raised |-> FALSE, shape |-> Transpose(shape, axes),
                               frames |-> [j \in 1..Len(video.framearray) |->
                                              video.framearray[j].pos]]]
          ELSE video' = [video EXCEPT !.pc = "raised", !.result.raised = TRUE]
    /\ UNCHANGED builder
    /\ UNCHANGED rasterizer

VideoEnded == video.pc \in {"returned", "raised"}

RasterizerIdle ==
    [pc |-> "idle", op |-> "none", labels |-> <<>>, events |-> <<>>,
     result |-> [raised |-> FALSE, target |-> <<>>]]

BuilderIdle ==
    /\ pc = "idle"
    /\ audio_dict = <<>>
    /\ mini_data = FALSE
    /\ has_weak_labels = FALSE
    /\ has_strong_labels = FALSE
    /\ audio_names = <<>>
    /\ video_names = <<>>
    /\ n = 0
    /\ hf = [state |-> "none"]
    /\ feature = <<>>
    /\ video_feature = <<>>

InitVideo ==
    /\ BuilderIdle
    /\ rasterizer = RasterizerIdle
    /\ \E nframe \in 0..MaxFrames, width \in 1..MaxDim, height \in 1..MaxDim,
          depth \in 1..MaxDepth, color \in BOOLEAN, skip \in BOOLEAN :
          video = VideoCall(<<>>, nframe, width, height, depth, color, skip)

NextVideo == VideoOpen \/ VideoFrame \/ VideoRelease \/ VideoReturn

SpecVideo == InitVideo /\ [][NextVideo]_vars

(***************************************************************************)
(* calculate_feature_for_all_audio_files                                   *)
(*                                                                         *)
(* hf is the h5py file: its handle state, how often it was opened and      *)
(* closed, the datasets created in it and their rows.  A row of feature is *)
(* named by the audio file it was computed from, a row of video_feature by *)
(* the video file and the shape of the tensor video3d_frames returned.      *)
(***************************************************************************)
HfNone ==
    [state |-> "none", opens |-> 0, closes |-> 0, datasets |-> {},
     audio_name |-> <<>>, video_name |-> <<>>, feature |-> <<>>,
     video_feature |-> <<>>, weak_target |-> <<>>, strong_target |-> <<>>]

\* The fill value of a row that resize adds and nothing has written yet.
FillFeature == <<>>

FillVideoFeature == [src |-> <<>>, shape |-> <<>>]

\* Mutant: resize to n rows instead of n + 1.
ResizeSame(rows, newlen, fill) == rows

\* Dataset.resize along the leading axis: new rows hold the fill value,
\* rows beyond the new length are dropped.
Resize(rows, newlen, fill) ==
    [j \in 1..newlen |-> IF j <= Len(rows) THEN rows[j] ELSE fill]

\* Mutant: every row up to index is overwritten.
SetRowUpTo(rows, index, row) ==
    [j \in 1..Len(rows) |-> IF j <= index + 1 THEN row ELSE rows[j]]

\* dataset[index] = row, index counted from 0; an index outside the
\* dataset is an error in h5py and is not reached here.
SetRow(rows, index, row) == [rows EXCEPT ![index + 1] = row]

InitBuilder ==
    /\ pc = "start"
    /\ \E k \in CorpusSizes, dotted \in BOOLEAN, b \in 0..2 :
          LET keys == Corpus(k, dotted)
              bad  == IF b = 0 \/ k = 0 THEN <<>>
                      ELSE IF b = 1 THEN PlainName(1) ELSE PlainName(k)
          IN audio_dict = AudioDict(keys, bad)
    /\ mini_data \in BOOLEAN
    /\ has_weak_labels \in BOOLEAN
    /\ has_strong_labels \in BOOLEAN
    /\ audio_names = <<>>
    /\ video_names = <<>>
    /\ n = 0
    /\ hf = HfNone
    /\ feature = FillFeature
    /\ video_feature = FillVideoFeature

Init ==
    /\ InitBuilder
    /\ video = VideoIdle
    /\ rasterizer = RasterizerIdle

\* line 235-243: the name lists, and the mini_data sub-sample of audio_names.
ListNames ==
    /\ pc = "start"
    /\ audio_names' = (IF mini_data THEN MiniSlice(Shuffle(SortedAudioNames(audio_dict)))
                       ELSE SortedAudioNames(audio_dict))
    /\ video_names' = SortedVideoNames(audio_dict)
    /\ pc' = "open"
    /\ UNCHANGED <<inputs, n, hf, feature, video_feature, video, rasterizer>>

\* line 249: hf = h5py.File(feature_path, 'w')
OpenArchive ==
    /\ pc = "open"
    /\ hf' = [hf EXCEPT !.state = "open", !.opens = hf.opens + 1]
    /\ pc' = "create"
    /\ UNCHANGED <<inputs, audio_names, video_names, n, feature, video_feature,
                   video, rasterizer>>

\* line 251-287: the datasets as created.
CreateDatasets ==
    /\ pc = "create"
    /\ hf' = [hf EXCEPT
                !.datasets = {"audio_name", "feature", "video_name", "video_feature"}
                    \cup (IF has_weak_labels THEN {"weak_target"} ELSE {})
                    \cup (IF has_strong_labels THEN {"strong_target"} ELSE {}),
                !.audio_name = audio_names,
                !.video_name = video_names,
                !.feature = <<>>,
                !.video_feature = <<>>,
                !.weak_target = <<>>,
                !.strong_target = <<>>]
    /\ pc' = "loop"
    /\ UNCHANGED <<inputs, audio_names, video_names, n, feature, video_feature,
                   video, rasterizer>>

\* line 290: for (n, audio_name) in enumerate(audio_names)
LoopHead ==
    /\ pc = "loop"
    /\ pc' = (IF n < Len(audio_names) THEN "read_audio" ELSE "close")
    /\ UNCHANGED <<inputs, audio_names, video_names, n, hf, feature, video_feature,
                   video, rasterizer>>

audio_name == audio_names[n + 1]

\* line 297-308: read_audio raises for a missing or unreadable file;
\* otherwise the feature of this audio file.
ReadAudio ==
    /\ pc = "read_audio"
    /\ \E readable \in BOOLEAN :
          IF readable
          THEN feature' = audio_name /\ pc' = "video_call"
          ELSE feature' = feature /\ pc' = "aborted"
    /\ UNCHANGED <<inputs, audio_names, video_names, n, hf, video_feature,
                   video, rasterizer>>

\* line 310: the call of video3d_frames on the item's video file.
CallVideo ==
    /\ pc = "video_call"
    /\ \E nframe \in 0..MaxFrames :
          video' = VideoCall(VideoNameOf(audio_name), nframe, video_feature_dim,
                             video_feature_dim, video_fps, TRUE, TRUE)
    /\ pc' = "video_wait"
    /\ UNCHANGED <<inputs, audio_names, video_names, n, hf, feature, video_feature,
                   rasterizer>>

\* line 310: the call has ended; an exception of it leaves the builder too.
VideoDone ==
    /\ pc = "video_wait"
    /\ VideoEnded
    /\ IF video.result.raised
       THEN pc' = "aborted" /\ UNCHANGED <<video, video_feature>>
       ELSE /\ pc' = "resize_feature"
            /\ video_feature' = [src |-> video.filename,
                                 shape |-> video.result.shape]
            /\ video' = VideoIdle
    /\ UNCHANGED <<inputs, audio_names, video_names, n, hf, feature, rasterizer>>

\* line 312
ResizeFeature ==
    /\ pc = "resize_feature"
    /\ hf' = [hf EXCEPT !.feature = Resize(hf.feature, n + 1, FillFeature)]
    /\ pc' = "write_feature"
    /\ UNCHANGED <<inputs, audio_names, video_names, n, feature, video_feature,
                   video, rasterizer>>

\* line 313
WriteFeature ==
    /\ pc = "write_feature"
    /\ hf' = [hf EXCEPT !.feature = SetRow(hf.feature, n, feature)]
    /\ pc' = "resize_video"
    /\ UNCHANGED <<inputs, audio_names, video_names, n, feature, video_feature,
                   video, rasterizer>>

\* line 316
ResizeVideoFeature ==
    /\ pc = "resize_video"
    /\ hf' = [hf EXCEPT !.video_feature =
                            Resize(hf.video_feature, n + 1, FillVideoFeature)]
    /\ pc' = "write_video"
    /\ UNCHANGED <<inputs, audio_names, video_names, n, feature, video_feature,
                   video, rasterizer>>

\* line 319, 325: the next statement of the loop body after the video row
\* (from = "video") or after the weak target (from = "weak").
NextStage(from) ==
    IF from = "video" /\ has_weak_labels THEN "resize_weak"
    ELSE IF has_strong_labels THEN "resize_strong"
    ELSE "next_item"

\* line 317
WriteVideoFeature ==
    /\ pc = "write_video"
    /\ hf' = [hf EXCEPT !.video_feature = SetRow(hf.video_feature, n, video_feature)]
    /\ pc' = NextStage("video")
    /\ UNCHANGED <<inputs, audio_names, video_names, n, feature, video_feature,
                   video, rasterizer>>

\* line 320-321
ResizeWeakTarget ==
    /\ pc = "resize_weak"
    /\ hf' = [hf EXCEPT !.weak_target = Resize(hf.weak_target, n + 1, ZeroVector)]
    /\ pc' = "write_weak"
    /\ UNCHANGED <<inputs, audio_names, video_names, n, feature, video_feature,
                   video, rasterizer>>

weak_labels == audio_dict[audio_name].weak_labels

\* line 322-323: a KeyError of labels_to_target is not caught.
WriteWeakTarget ==
    /\ pc = "write_weak"
    /\ LET r == labels_to_target(weak_labels)
       IN IF r.raised
          THEN pc' = "aborted" /\ hf' = hf
          ELSE /\ hf' = [hf EXCEPT !.weak_target = SetRow(hf.weak_target, n, r.target)]
               /\ pc' = NextStage("weak")
    /\ UNCHANGED <<inputs, audio_names, video_names, n, feature, video_feature,
                   video, rasterizer>>

\* line 326-327
ResizeStrongTarget ==
    /\ pc = "resize_strong"
    /\ hf' = [hf EXCEPT !.strong_target = Resize(hf.strong_target, n + 1, ZeroMatrix)]
    /\ pc' = "write_strong"
    /\ UNCHANGED <<inputs, audio_names, video_names, n, feature, video_feature,
                   video, rasterizer>>

events == audio_dict[audio_name].strong_labels

\* line 328-333: a KeyError of events_to_target is not caught.
WriteStrongTarget ==
    /\ pc = "write_strong"
    /\ LET r == events_to_target(events)
       IN IF r.raised
          THEN pc' = "aborted" /\ hf' = hf
          ELSE /\ hf' = [hf EXCEPT !.strong_target =
                                       SetRow(hf.strong_target, n, r.target)]
               /\ pc' = "next_item"
    /\ UNCHANGED <<inputs, audio_names, video_names, n, feature, video_feature,
                   video, rasterizer>>

\* line 290: enumerate moves on to the next item.
NextItem ==
    /\ pc = "next_item"
    /\ n' = n + 1
    /\ pc' = "loop"
    /\ UNCHANGED <<inputs, audio_names, video_names, hf, feature, video_feature,
                   video, rasterizer>>

\* line 335: hf.close(), reached only when the loop has run to its end.
CloseArchive ==
    /\ pc = "close"
    /\ hf' = [hf EXCEPT !.state = "closed", !.closes = hf.closes + 1]
    /\ pc' = "done"
    /\ UNCHANGED <<inputs, audio_names, video_names, n, feature, video_feature,
                   video, rasterizer>>

Next ==
    \/ ListNames \/ OpenArchive \/ CreateDatasets \/ LoopHead \/ ReadAudio
    \/ CallVideo \/ VideoOpen \/ VideoFrame \/ VideoRelease \/ VideoReturn
    \/ VideoDone \/ ResizeFeature \/ WriteFeature \/ ResizeVideoFeature
    \/ WriteVideoFeature \/ ResizeWeakTarget \/ WriteWeakTarget
    \/ ResizeStrongTarget \/ WriteStrongTarget \/ NextItem \/ CloseArchive

Spec == Init /\ [][Next]_vars

(***************************************************************************)
(* The label rasterizer called on its own, on every label list and event   *)
(* list within the bounds.                                                 *)
(***************************************************************************)
SeqsUpTo(S, k) == UNION {[1..m -> S] : m \in 0..k}

Events ==
    {[event |-> l, onset |-> a, offset |-> b] :
        l \in LabelUniverse, a \in 0..MaxTick, b \in 0..MaxTick}

EventUniverse == {e \in Events : e.onset <= e.offset}

InitLabels ==
    /\ BuilderIdle
    /\ video = VideoIdle
    /\ \/ \E labels \in SeqsUpTo(LabelUniverse, MaxLabels) :
             rasterizer = [RasterizerIdle EXCEPT !.pc = "called", !.op = "labels",
                                                 !.labels = labels]
       \/ \E evs \in SeqsUpTo(EventUniverse, MaxEvents) :
             rasterizer = [RasterizerIdle EXCEPT !.pc = "called", !.op = "events",
                                                 !.events = evs]

CallLabelsToTarget ==
    /\ rasterizer.pc = "called"
    /\ rasterizer.op = "labels"
    /\ rasterizer' = [rasterizer EXCEPT !.pc = "ended",
                          !.result = labels_to_target(rasterizer.labels)]
    /\ UNCHANGED builder
    /\ UNCHANGED video

CallEventsToTarget ==
    /\ rasterizer.pc = "called"
    /\ rasterizer.op = "events"
    /\ rasterizer' = [rasterizer EXCEPT !.pc = "ended",
                          !.result = events_to_target(rasterizer.events)]
    /\ UNCHANGED builder
    /\ UNCHANGED video

NextLabels == CallLabelsToTarget \/ CallEventsToTarget

SpecLabels == InitLabels /\ [][NextLabels]_vars

(***************************************************************************)
(* Properties                                                              *)
(***************************************************************************)
Growable == {"feature", "video_feature", "weak_target", "strong_target"}

\* The items the run has to process: len(audio_names).
ItemsNum == Len(audio_names)

\* C1: after a run over N items has completed, every dataset of the archive
\* has leading dimension N, and row i of audio_name and of video_name name
\* the item whose audio and video produced feature[i] and video_feature[i].
C1_AlignedAfterRun ==
    pc = "done" =>
        /\ \A d \in hf.datasets : Len(hf[d]) = ItemsNum
        /\ \A i \in 1..ItemsNum :
              /\ hf.feature[i] = hf.audio_name[i]
              /\ hf.video_feature[i].src = hf.video_name[i]
              /\ hf.video_name[i] = VideoNameOf(hf.audio_name[i])

DatasetsCreated == hf.state = "open" /\ hf.datasets # {}

InVocabulary(l) == ~isnan(l) /\ HasKey(l)

EventsCall == rasterizer.pc = "ended" /\ rasterizer.op = "events"

LabelsCall == rasterizer.pc = "ended" /\ rasterizer.op = "labels"

\* Class c is active at frame f by the events' frame intervals.
ActiveAt(evs, f, c) ==
    \E j \in 1..Len(evs) :
        /\ lb_to_idx[evs[j].event] = c
        /\ onset_frame(evs[j]) <= f
        /\ f < offset_frame(evs[j])

\* C3: for events whose names are all in the vocabulary, events_to_target
\* returns a frames_num x classes_num matrix whose cell (f, c) is set iff an
\* event of class c has onset_frame <= f < offset_frame, also for overlapping
\* events and for an offset_frame beyond frames_num.
C3_EventsRasterized ==
    (EventsCall /\ \A j \in 1..Len(rasterizer.events) :
                      InVocabulary(rasterizer.events[j].event)) =>
        /\ ~rasterizer.result.raised
        /\ DOMAIN rasterizer.result.target = 0..(frames_num - 1)
        /\ \A f \in 0..(frames_num - 1) :
              /\ DOMAIN rasterizer.result.target[f] = 0..(classes_num - 1)
              /\ \A c \in 0..(classes_num - 1) :
                    rasterizer.result.target[f][c] <=> ActiveAt(rasterizer.events, f, c)

\* Two overlapping events of one class, the later one running past the last
\* frame, rasterized into a matrix with a cell set and a cell not set.
C3_Witness ==
    /\ EventsCall
    /\ Len(rasterizer.events) = 2
    /\ rasterizer.events[1].event = rasterizer.events[2].event
    /\ InVocabulary(rasterizer.events[1].event)
    /\ onset_frame(rasterizer.events[2]) < offset_frame(rasterizer.events[1])
    /\ onset_frame(rasterizer.events[1]) < onset_frame(rasterizer.events[2])
    /\ offset_frame(rasterizer.events[2]) > frames_num
    /\ ~rasterizer.result.raised
    /\ \E f \in 0..(frames_num - 1) : rasterizer.result.target[f][0]
                                       /\ ~rasterizer.result.target[f][1]

\* C4: for labels whose non-missing members are all in the vocabulary,
\* labels_to_target returns a vector of length classes_num whose bit c is set
\* iff a non-missing label maps to c; missing labels set no bit, raise nothing.
C4_LabelsToBits ==
    (LabelsCall /\ \A j \in 1..Len(rasterizer.labels) :
                      isnan(rasterizer.labels[j]) \/ HasKey(rasterizer.labels[j])) =>
        /\ ~rasterizer.result.raised
        /\ DOMAIN rasterizer.result.target = 0..(classes_num - 1)
        /\ \A c \in 0..(classes_num - 1) :
              rasterizer.result.target[c] <=>
                  \E j \in 1..Len(rasterizer.labels) :
                      /\ ~isnan(rasterizer.labels[j])
                      /\ lb_to_idx[rasterizer.labels[j]] = c

C4_Witness ==
    /\ LabelsCall
    /\ Len(rasterizer.labels) = 2
    /\ isnan(rasterizer.labels[1])
    /\ InVocabulary(rasterizer.labels[2])
    /\ ~rasterizer.result.raised
    /\ rasterizer.result.target[lb_to_idx[rasterizer.labels[2]]]

PresentUnknown(l) == ~isnan(l) /\ ~HasKey(l)

\* C5: a label or event name that is present but not in the vocabulary makes
\* labels_to_target / events_to_target fail; the builder does not catch the
\* error: the run aborts and no target is written for the item.
C5_UnknownLabelAborts ==
    [][/\ (pc = "write_weak" /\ \E j \in 1..Len(weak_labels) :
                                    PresentUnknown(weak_labels[j]))
            => (pc' = "aborted" /\ hf' = hf)
       /\ (pc = "write_strong" /\ \E j \in 1..Len(events) :
                                      PresentUnknown(events[j].event))
            => (pc' = "aborted" /\ hf' = hf)]_vars

\* The run aborted at the strong target of an item with an unknown event.
C5_Witness ==
    /\ pc = "aborted"
    /\ n < ItemsNum
    /\ Len(hf.strong_target) = n + 1
    /\ hf.strong_target[n + 1] = ZeroMatrix
    /\ \E j \in 1..Len(events) : PresentUnknown(events[j].event)

\* The bits set by the labels that are in the vocabulary.
KnownBits(labels) ==
    [c \in 0..(classes_num - 1) |->
        \E j \in 1..Len(labels) : InVocabulary(labels[j]) /\ lb_to_idx[labels[j]] = c]

\* C6 as stated: labels_to_target skips unknown labels like missing ones:
\* no error, no bit, and the target of the remaining labels is returned.
C6_UnknownSkipped ==
    LabelsCall =>
        /\ ~rasterizer.result.raised
        /\ rasterizer.result.target = KnownBits(rasterizer.labels)

\* C6 as amended: labels_to_target skips only the labels marked missing/NaN;
\* it fails exactly when a label is present but not in label_to_index, and
\* otherwise returns the target of the non-missing labels.
C6_OnlyMissingSkipped ==
    LabelsCall =>
        /\ rasterizer.result.raised <=>
              \E j \in 1..Len(rasterizer.labels) : PresentUnknown(rasterizer.labels[j])
        /\ ~rasterizer.result.raised =>
              rasterizer.result.target = KnownBits(rasterizer.labels)

C6_Witness ==
    /\ LabelsCall
    /\ Len(rasterizer.labels) = 2
    /\ InVocabulary(rasterizer.labels[1])
    /\ PresentUnknown(rasterizer.labels[2])
    /\ rasterizer.result.raised

\* C7: video3d_frames returns a tensor of shape (width, height, frame_count,
\* channels), channels = 3 for colour and 1 for grayscale, for every source
\* frame count and both values of color and skip (stated here for the calls
\* in which every requested frame was decoded).
C7_VideoShape ==
    (VideoEnded /\ video.i = video.depth) =>
        /\ ~video.result.raised
        /\ video.result.shape = <<video.width, video.height, video.depth,
                                  IF video.color THEN 3 ELSE 1>>

\* C8: the decoder handle video3d_frames opened is released when the call
\* has ended, by return or by exception.
C8_DecoderReleased ==
    VideoEnded => video.cap # "open"

\* C9: the archive file is opened once and closed exactly once, after the
\* last item when the run succeeds and also when a per-item step fails; it is
\* never closed before every item is written, never left open at the end.
C9_ArchiveClosedOnce ==
    /\ hf.closes > 0 => n = ItemsNum
    /\ hf.opens <= 1
    /\ pc \in {"done", "aborted"} =>
          /\ hf.opens = 1
          /\ hf.closes = 1
          /\ hf.state = "closed"

ResizeSteps == {"resize_feature", "resize_video", "resize_weak", "resize_strong"}

WriteSteps == {"write_feature", "write_video", "write_weak", "write_strong"}

\* C10: processing item n grows each declared growable dataset from n rows to
\* n + 1, writes row n only, and leaves rows 0..n-1 and the two name datasets
\* unchanged; no step shrinks a dataset or rewrites an earlier row.
C10_AppendOnly ==
    [][/\ pc \notin {"start", "open", "create"} =>
             /\ hf'.audio_name = hf.audio_name
             /\ hf'.video_name = hf.video_name
             /\ hf'.datasets = hf.datasets
       /\ \A d \in Growable :
             \/ hf'[d] = hf[d]
             \/ /\ pc \in ResizeSteps
                /\ Len(hf[d]) = n
                /\ Len(hf'[d]) = n + 1
                /\ SubSeq(hf'[d], 1, n) = hf[d]
             \/ /\ pc \in WriteSteps
                /\ Len(hf[d]) = n + 1
                /\ Len(hf'[d]) = n + 1
                /\ SubSeq(hf'[d], 1, n) = SubSeq(hf[d], 1, n)
       /\ pc = "read_audio" =>
             \A d \in hf.datasets \cap Growable : Len(hf[d]) = n
       /\ (pc = "next_item" /\ pc' = "loop") =>
             /\ n' = n + 1
             /\ \A d \in hf.datasets \cap Growable : Len(hf'[d]) = n + 1
             /\ hf'.feature[n + 1] = hf.audio_name[n + 1]
             /\ hf'.video_feature[n + 1].src = VideoNameOf(hf.audio_name[n + 1])]_vars

\* The third item has been written after two others, with both targets.
C10_Witness ==
    /\ pc = "next_item"
    /\ n = 2
    /\ hf.datasets = Growable \cup {"audio_name", "video_name"}
    /\ \A d \in Growable : Len(hf[d]) = 3
    /\ hf.feature[1] # hf.feature[3]

====
